---- MODULE Spec2Model ----
(***************************************************************************)
(* Rust-QuantumRNG: the conditioning utilities (src/src/utils.rs), the     *)
(* orchestrator (src/src/main.rs) and the three entropy collectors         *)
(* (src/src/webcam.rs, audio.rs, serial.rs) as state machines.             *)
(*                                                                         *)
(* Sequences are 1-based here and 0-based in the source: source index i is *)
(* element i + 1.                                                          *)
(***************************************************************************)
EXTENDS Integers, Sequences, FiniteSets, TLC

VARIABLES
    arg,        \* utils harness: the argument of the first call
    kind,       \* utils harness: "bits" or "bytes", what `ret` holds
    calls,      \* utils harness: the functions called so far, in order
    ret,        \* utils harness: the value returned by the last call
    hashed,     \* utils harness: the byte buffers handed to the hasher
    pc,         \* main / collectors: the place control is at
    num_bits,   \* the --num-bits argument
    random_bits,        \* main: `bits`; in a collector: the bits collected so far
    exit,       \* "running", "ok", or the error the call ended with
    apply_debiasing,    \* the --apply-debiasing flag
    apply_hashing,      \* the --apply-hashing flag
    output_file,        \* Option<String>: <<>> is None, <<name>> is Some(name)
    collected,  \* what the collector returned to main
    result_bits,        \* process_bits: `result_bits`
    file,       \* the output file: whether it exists, and the bytes it holds
    command,    \* the subcommand: which collector runs
    sample_format,      \* audio: config.sample_format()
    sample_rate,        \* audio: config.sample_rate().0
    stream,     \* audio: the input stream: "none", "built", "playing", "dropped"
    remaining,  \* audio: seconds of recording left
    samples,    \* audio: the Vec<i16> the stream callback fills
    errors      \* serial: the count of invalid readings

varsUtils == <<arg, kind, calls, ret, hashed>>
varsMain == <<pc, num_bits, random_bits, exit>>
varsProc == <<apply_debiasing, apply_hashing, output_file, collected, result_bits, file>>

varsColl == <<command, sample_format, sample_rate, stream, remaining, samples, errors>>

vars == <<varsUtils, varsMain, varsProc, varsColl>>

(***************************************************************************)
(* Bounds of the model.                                                    *)
(***************************************************************************)
MaxBitLen == 9
MaxByteLen == 2
MaxNumBits == 8
MaxCollectBits == 3
MaxFrameLen == 2
MaxSamples == 3
MaxErrors == 2
MaxQuickLen == 101
MaxPairLen == 5

Bit == {0, 1}
Byte == 0..255
\* byte values used in buffers of more than one byte
ByteSamples == {0, 1, 85, 128, 170, 255}

BitSeqs(n) == UNION {[1..k -> Bit] : k \in 0..n}
ByteBuffers == {<<b>> : b \in Byte} \cup UNION {[1..k -> ByteSamples] : k \in 0..MaxByteLen}

(***************************************************************************)
(* u8 arithmetic                                                           *)
(***************************************************************************)
\* 1 << i
Shl1(i) == 2^i

\* byte >> i
Shr(byte, i) == byte \div (2^i)

\* x & 1
And1(x) == x % 2

RECURSIVE BitOr(_, _)
\* a | b
BitOr(a, b) ==
    IF a = 0 THEN b
    ELSE IF b = 0 THEN a
    ELSE (IF a % 2 = 1 \/ b % 2 = 1 THEN 1 ELSE 0) + 2 * BitOr(a \div 2, b \div 2)

(***************************************************************************)
(* von_neumann_debias                                                      *)
(***************************************************************************)
RECURSIVE DebiasLoop_EmitSecond(_, _, _)
\* slip: keeps the second bit of an unequal pair
DebiasLoop_EmitSecond(bits, lo, hi) ==
    IF lo >= hi THEN <<>>
    ELSE IF lo + 2 >= hi
    THEN LET a == bits[lo + 1]
             b == bits[lo + 2]
         IN  IF a # b THEN <<b>> ELSE <<>>
    ELSE LET mid == lo + (2 * (((hi - lo + 1) \div 2) \div 2))
         IN  DebiasLoop_EmitSecond(bits, lo, mid) \o DebiasLoop_EmitSecond(bits, mid, hi)

RECURSIVE DebiasLoop(_, _, _)
\* for i in (0..bits.len() - 1).step_by(2) { if a != b { result.push(a) } }
\* what the iterations i = lo, lo + 2, .. below hi push, in order: a single
\* iteration, or the pushes of the first half followed by those of the rest
DebiasLoop(bits, lo, hi) ==
    IF lo >= hi THEN <<>>
    ELSE IF lo + 2 >= hi
    THEN LET a == bits[lo + 1]
             b == bits[lo + 2]
         IN  IF a # b THEN <<a>> ELSE <<>>
    ELSE LET mid == lo + (2 * (((hi - lo + 1) \div 2) \div 2))
         IN  DebiasLoop(bits, lo, mid) \o DebiasLoop(bits, mid, hi)

\* slip: no fallback bit
DebiasFallback_None(bits, result) == result

\* if result.is_empty() && !bits.is_empty() { result.push(bits[0]) }
DebiasFallback(bits, result) ==
    IF result = <<>> /\ bits # <<>> THEN Append(result, bits[1]) ELSE result

von_neumann_debias(bits) ==
    IF Len(bits) < 2 THEN bits
    ELSE DebiasFallback(bits, DebiasLoop(bits, 0, Len(bits) - 1))

(***************************************************************************)
(* bits_to_bytes, bytes_to_bits                                            *)
(***************************************************************************)
\* slip: pads a whole byte when the length is already a multiple of 8
PaddedLen_AlwaysPad(bits) == Len(bits) + (8 - (Len(bits) % 8))

\* padded_len
PaddedLen(bits) ==
    IF Len(bits) % 8 # 0 THEN Len(bits) + (8 - (Len(bits) % 8)) ELSE Len(bits)

\* padded_bits.resize(padded_len, 0)
Resize(bits, n) == [k \in 1..n |-> IF k <= Len(bits) THEN bits[k] ELSE 0]

RECURSIVE PackChunk_MsbFirst(_, _, _)
\* slip: the first bit of a chunk becomes bit 7
PackChunk_MsbFirst(chunk, i, byte) ==
    IF i >= Len(chunk) THEN byte
    ELSE PackChunk_MsbFirst(chunk, i + 1,
                            IF chunk[i + 1] = 1 THEN BitOr(byte, Shl1(7 - i)) ELSE byte)

RECURSIVE PackChunk(_, _, _)
\* for (i, &bit) in chunk.iter().enumerate() { if bit == 1 { byte |= 1 << i } }
PackChunk(chunk, i, byte) ==
    IF i >= Len(chunk) THEN byte
    ELSE PackChunk(chunk, i + 1,
                   IF chunk[i + 1] = 1 THEN BitOr(byte, Shl1(i)) ELSE byte)

\* padded_bits.chunks(8): chunk c (0-based) of the padded bits
Chunk(padded, c) == SubSeq(padded, 8 * c + 1, 8 * c + 8)

bits_to_bytes(bits) ==
    LET padded == Resize(bits, PaddedLen(bits))
    IN  [c \in 1..(Len(padded) \div 8) |-> PackChunk(Chunk(padded, c - 1), 0, 0)]

\* slip: unpacks bit 7 first
UnpackBit_MsbFirst(byte, i) == And1(Shr(byte, 7 - i))

\* (byte >> i) & 1
UnpackBit(byte, i) == And1(Shr(byte, i))

\* for &byte in bytes { for i in 0..8 { bits.push((byte >> i) & 1) } }:
\* push number n (0-based) is bit n % 8 of byte n / 8
bytes_to_bits(bytes) ==
    [n \in 1..(8 * Len(bytes)) |-> UnpackBit(bytes[((n - 1) \div 8) + 1], (n - 1) % 8)]

(***************************************************************************)
(* hash_randomness.  Sha3_256 is the external sha3 crate: it is modelled   *)
(* as a fixed function from a byte buffer to DigestLen bytes (a running    *)
(* checksum of the buffer spread over the digest), which keeps what the    *)
(* code relies on: the digest has 32 bytes and depends on the buffer only. *)
(***************************************************************************)
DigestLen == 32

RECURSIVE Absorb(_, _)
Absorb(bytes, h) ==
    IF bytes = <<>> THEN h
    ELSE Absorb(Tail(bytes), ((h * 31) + Head(bytes) + 1) % 65521)

Sha3_256(bytes) ==
    LET h == Absorb(bytes, 7)
    IN  [j \in 1..DigestLen |-> (((h + 1) * ((2 * j) + 1)) + (37 * j)) % 256]

\* slip: hashes the empty input too
hash_randomness_NoEmptyCheck(bits) == bytes_to_bits(Sha3_256(bits_to_bytes(bits)))

\* slip: feeds the hasher the bits themselves, one byte per bit, unpacked
hash_randomness_RawBits(bits) ==
    IF bits = <<>> THEN <<>>
    ELSE bytes_to_bits(Sha3_256(bits))

\* the value hash_randomness returns
hash_randomness(bits) ==
    IF bits = <<>> THEN <<>>
    ELSE bytes_to_bits(Sha3_256(bits_to_bytes(bits)))

\* the buffers hash_randomness hands to hasher.update
HasherUpdates(bits) ==
    IF bits = <<>> THEN <<>> ELSE <<bits_to_bytes(bits)>>

(***************************************************************************)
(* The utilities called on bounded inputs.                                 *)
(***************************************************************************)
IdleUtils == arg = <<>> /\ kind = "bits" /\ calls = <<>> /\ ret = <<>> /\ hashed = <<>>

NoFile == [created |-> FALSE, data |-> <<>>]

IdleMain == pc = "idle" /\ num_bits = 0 /\ random_bits = <<>> /\ exit = "running"

IdleProc ==
    /\ apply_debiasing = FALSE /\ apply_hashing = FALSE /\ output_file = <<>>
    /\ collected = <<>> /\ result_bits = <<>> /\ file = NoFile

IdleColl ==
    /\ command = "none" /\ sample_format = "none" /\ sample_rate = 0
    /\ stream = "none" /\ remaining = 0 /\ samples = <<>> /\ errors = 0

InitUtils ==
    /\ IdleMain /\ IdleProc /\ IdleColl
    /\ \/ arg \in BitSeqs(MaxBitLen) /\ kind = "bits"
       \/ arg \in ByteBuffers /\ kind = "bytes"
    /\ calls = <<>>
    /\ ret = arg
    /\ hashed = <<>>

CallBitsToBytes ==
    /\ kind = "bits"
    /\ calls \in {<<>>, <<"bytes_to_bits">>}
    /\ ret' = bits_to_bytes(ret)
    /\ kind' = "bytes"
    /\ calls' = Append(calls, "bits_to_bytes")
    /\ UNCHANGED <<arg, hashed, varsMain, varsProc, varsColl>>

CallBytesToBits ==
    /\ kind = "bytes"
    /\ calls \in {<<>>, <<"bits_to_bytes">>}
    /\ ret' = bytes_to_bits(ret)
    /\ kind' = "bits"
    /\ calls' = Append(calls, "bytes_to_bits")
    /\ UNCHANGED <<arg, hashed, varsMain, varsProc, varsColl>>

CallDebias ==
    /\ kind = "bits"
    /\ calls = <<>>
    /\ ret' = von_neumann_debias(ret)
    /\ calls' = Append(calls, "von_neumann_debias")
    /\ UNCHANGED <<arg, kind, hashed, varsMain, varsProc, varsColl>>

CallHash ==
    /\ kind = "bits"
    /\ calls \in {<<>>, <<"von_neumann_debias">>}
    /\ ret' = hash_randomness(ret)
    /\ hashed' = hashed \o HasherUpdates(ret)
    /\ calls' = Append(calls, "hash_randomness")
    /\ UNCHANGED <<arg, kind, varsMain, varsProc, varsColl>>

NextUtils == CallBitsToBytes \/ CallBytesToBits \/ CallDebias \/ CallHash

SpecUtils == InitUtils /\ [][NextUtils]_vars

(***************************************************************************)
(* main and process_bits.  The collector is seen from main: it returns     *)
(* Ok(bits) with num_bits bits, or an error (the collectors themselves are  *)
(* modelled further down).                                                 *)
(***************************************************************************)
OutputFiles == {<<>>, <<"random.bin">>}

InitPipeline ==
    /\ IdleUtils /\ IdleColl
    /\ pc = "collect"
    /\ num_bits \in 0..MaxNumBits
    /\ random_bits = <<>>
    /\ exit = "running"
    /\ apply_debiasing \in BOOLEAN
    /\ apply_hashing \in BOOLEAN
    /\ output_file \in OutputFiles
    /\ collected = <<>>
    /\ result_bits = <<>>
    /\ file = NoFile

\* let mut bits = webcam_qrng(*num_bits)?;  (audio_qrng, serial_qrng alike)
\* then process_bits: let mut result_bits = bits.clone();
Collect ==
    /\ pc = "collect"
    /\ \/ \E b \in [1..num_bits -> Bit] :
            /\ random_bits' = b
            /\ collected' = b
            /\ result_bits' = b
            /\ pc' = "debias"
            /\ UNCHANGED exit
       \/ /\ exit' = "err"
          /\ pc' = "done"
          /\ UNCHANGED <<random_bits, collected, result_bits>>
    /\ UNCHANGED <<num_bits, apply_debiasing, apply_hashing, output_file, file, varsUtils, varsColl>>

\* slip: hashes before it debiases
DebiasStage_HashFirst ==
    /\ pc = "debias"
    /\ result_bits' =
          LET h == IF apply_hashing THEN hash_randomness(result_bits) ELSE result_bits
          IN  IF apply_debiasing THEN von_neumann_debias(h) ELSE h
    /\ pc' = "persist"
    /\ UNCHANGED <<num_bits, random_bits, exit, apply_debiasing, apply_hashing,
                   output_file, collected, file, varsUtils, varsColl>>

\* if apply_debiasing { result_bits = utils::von_neumann_debias(&result_bits); }
DebiasStage ==
    /\ pc = "debias"
    /\ result_bits' =
          IF apply_debiasing THEN von_neumann_debias(result_bits) ELSE result_bits
    /\ pc' = "hash"
    /\ UNCHANGED <<num_bits, random_bits, exit, apply_debiasing, apply_hashing,
                   output_file, collected, file, varsUtils, varsColl>>

\* if apply_hashing { result_bits = utils::hash_randomness(&result_bits); }
HashStage ==
    /\ pc = "hash"
    /\ result_bits' =
          IF apply_hashing THEN hash_randomness(result_bits) ELSE result_bits
    /\ pc' = "persist"
    /\ UNCHANGED <<num_bits, random_bits, exit, apply_debiasing, apply_hashing,
                   output_file, collected, file, varsUtils, varsColl>>

\* *bits = result_bits; Ok(())
ReturnOk ==
    /\ random_bits' = result_bits
    /\ exit' = "ok"
    /\ pc' = "done"

\* an I/O call returned Err and `?` hands it up to main
ReturnErr ==
    /\ exit' = "err"
    /\ pc' = "done"
    /\ UNCHANGED random_bits

\* if let Some(filename) = output_file { let mut file = File::create(filename)?; ...
Persist ==
    /\ pc = "persist"
    /\ IF output_file = <<>>
       THEN ReturnOk /\ UNCHANGED file
       ELSE \/ /\ file' = [created |-> TRUE, data |-> <<>>]
               /\ pc' = "write"
               /\ UNCHANGED <<random_bits, exit>>
            \/ ReturnErr /\ UNCHANGED file
    /\ UNCHANGED <<num_bits, apply_debiasing, apply_hashing, output_file,
                   collected, result_bits, varsUtils, varsColl>>

\* what the file can hold when write_all returns: every byte written (Ok), or
\* only the first k of them (Err)
Prefixes(bytes) == {SubSeq(bytes, 1, k) : k \in 0..Len(bytes)}

\* let bytes = utils::bits_to_bytes(&result_bits); file.write_all(&bytes)?;
WriteBinary ==
    /\ pc = "write"
    /\ Len(result_bits) % 8 = 0
    /\ \E written \in Prefixes(bits_to_bytes(result_bits)) :
          /\ file' = [file EXCEPT !.data = written]
          /\ IF Len(written) = Len(result_bits) \div 8 THEN ReturnOk ELSE ReturnErr
    /\ UNCHANGED <<num_bits, apply_debiasing, apply_hashing, output_file,
                   collected, result_bits, varsUtils, varsColl>>

\* the byte write!(file, "{}", bit) writes: '0' or '1'
Ascii(bit) == 48 + bit

\* for bit in &result_bits { write!(file, "{}", bit)?; }
WriteText ==
    /\ pc = "write"
    /\ Len(result_bits) % 8 # 0
    /\ IF Len(file.data) < Len(result_bits)
       THEN \/ /\ file' = [file EXCEPT !.data = Append(@, Ascii(result_bits[Len(file.data) + 1]))]
               /\ UNCHANGED <<pc, random_bits, exit>>
            \/ ReturnErr /\ UNCHANGED file
       ELSE ReturnOk /\ UNCHANGED file
    /\ UNCHANGED <<num_bits, apply_debiasing, apply_hashing, output_file,
                   collected, result_bits, varsUtils, varsColl>>

NextPipeline ==
    Collect \/ DebiasStage \/ HashStage \/ Persist \/ WriteBinary \/ WriteText

SpecPipeline == InitPipeline /\ [][NextPipeline]_vars

(***************************************************************************)
(* The collectors: webcam_qrng, audio_qrng, serial_qrng.  Each step of a   *)
(* collector is an action; what the device, the driver or the line         *)
(* delivers is chosen by the environment.  The progress counters, which    *)
(* only decide what is printed, are left out.                              *)
(***************************************************************************)
Commands == {"webcam", "audio", "serial"}

\* the call returns Err(e)
Fail(e) ==
    /\ exit' = e
    /\ pc' = "done"

\* Ok(random_bits[..num_bits].to_vec())
ReturnBits(collectedBits) ==
    /\ random_bits' = SubSeq(collectedBits, 1, num_bits)
    /\ exit' = "ok"
    /\ pc' = "done"

RECURSIVE PushLsbs(_, _, _, _)
\* for &x in data { bits.push(x & 1); if bits.len() >= num_bits { break; } }
PushLsbs(acc, data, i, n) ==
    IF i >= Len(data) THEN acc
    ELSE LET pushed == Append(acc, And1(data[i + 1]))
         IN  IF Len(pushed) >= n THEN pushed ELSE PushLsbs(pushed, data, i + 1, n)

InitCollect ==
    /\ IdleUtils /\ IdleProc
    /\ command \in Commands
    /\ num_bits \in 0..MaxCollectBits
    /\ pc = "open"
    /\ random_bits = <<>>
    /\ exit = "running"
    /\ sample_format = "none" /\ sample_rate = 0
    /\ stream = "none" /\ remaining = 0 /\ samples = <<>> /\ errors = 0

(************************** webcam_qrng ************************************)
\* grey pixel values of a frame
Pixels == {0, 1, 254, 255}
Frames == UNION {[1..k -> Pixels] : k \in 1..MaxFrameLen}

\* VideoCapture::new(0, CAP_ANY)?; is_opened()?; cap.set(..)?; cap.set(..)?
WebcamOpen ==
    /\ command = "webcam"
    /\ pc = "open"
    /\ \/ Fail("opencv error")
       \/ Fail("Failed to open webcam")
       \/ pc' = "loop" /\ UNCHANGED exit
    /\ UNCHANGED <<num_bits, random_bits, varsUtils, varsProc, varsColl>>

\* while random_bits.len() < num_bits { cap.read; cvt_color; data_bytes; push }
WebcamLoop ==
    /\ command = "webcam"
    /\ pc = "loop"
    /\ IF Len(random_bits) < num_bits
       THEN \/ Fail("opencv error") /\ UNCHANGED random_bits
            \/ pc' = "sleep" /\ UNCHANGED <<exit, random_bits>>
            \/ \E frame \in Frames :
                  /\ random_bits' = PushLsbs(random_bits, frame, 0, num_bits)
                  /\ UNCHANGED <<pc, exit>>
       ELSE pc' = "release" /\ UNCHANGED <<exit, random_bits>>
    /\ UNCHANGED <<num_bits, varsUtils, varsProc, varsColl>>

\* if !cap.read(&mut frame)? { sleep(10 ms); continue; }
WebcamSleep ==
    /\ command = "webcam"
    /\ pc = "sleep"
    /\ pc' = "loop"
    /\ UNCHANGED <<num_bits, random_bits, exit, varsUtils, varsProc, varsColl>>

\* cap.release()?; Ok(random_bits[..num_bits].to_vec())
WebcamRelease ==
    /\ command = "webcam"
    /\ pc = "release"
    /\ \/ Fail("opencv error") /\ UNCHANGED random_bits
       \/ ReturnBits(random_bits)
    /\ UNCHANGED <<num_bits, varsUtils, varsProc, varsColl>>

(************************** audio_qrng *************************************)
SampleFormats == {"I16", "U16", "F32", "other"}
SampleRates == {44100, 48000}

\* what the device hands to the callback, per format; an f32 sample is given
\* in quarters: q stands for q / 4
DeviceSamples(format) ==
    CASE format = "I16" -> {-32768, -1, 0, 32767}
      [] format = "U16" -> {0, 32767, 32768, 65535}
      [] format = "F32" -> {-4, -1, 0, 2}
      [] OTHER -> {}

\* x / y rounded toward zero
TruncDiv(x, y) == IF x >= 0 THEN x \div y ELSE -((-x) \div y)

\* the i16 pushed for a device sample: s, s as i16, (s * 32767.0) as i16
ToI16(format, s) ==
    CASE format = "I16" -> s
      [] format = "U16" -> IF s >= 32768 THEN s - 65536 ELSE s
      [] format = "F32" -> TruncDiv(s * 32767, 4)

Max(a, b) == IF a >= b THEN a ELSE b

\* (num_bits as f32 / sample_rate as f32 * 1.5).max(1.0), then `as u32`
DurationSec(n, rate) == Max(1, (3 * n) \div (2 * rate))

\* default_input_device, device.name()?, default_input_config()?,
\* build_input_stream(..)?
AudioOpen ==
    /\ command = "audio"
    /\ pc = "open"
    /\ \/ Fail("No microphone available") /\ UNCHANGED <<sample_format, sample_rate, stream>>
       \/ Fail("cpal error") /\ UNCHANGED <<sample_format, sample_rate, stream>>
       \/ \E format \in SampleFormats, rate \in SampleRates :
             /\ sample_format' = format
             /\ sample_rate' = rate
             /\ IF format = "other"
                THEN Fail("Unsupported sample format") /\ UNCHANGED stream
                ELSE stream' = "built" /\ pc' = "play" /\ UNCHANGED exit
    /\ UNCHANGED <<num_bits, random_bits, remaining, samples, command, errors,
                   varsUtils, varsProc>>

\* stream.play()?
AudioPlay ==
    /\ command = "audio"
    /\ pc = "play"
    /\ \/ Fail("cpal error") /\ stream' = "none" /\ UNCHANGED remaining
       \/ /\ stream' = "playing"
          /\ remaining' = DurationSec(num_bits, sample_rate)
          /\ pc' = "record"
          /\ UNCHANGED exit
    /\ UNCHANGED <<num_bits, random_bits, sample_format, sample_rate, samples,
                   command, errors, varsUtils, varsProc>>

\* the stream's data callback: samples.extend(..) under the mutex
AudioCallback ==
    /\ stream = "playing"
    /\ Len(samples) < MaxSamples
    /\ \E s \in DeviceSamples(sample_format) :
          samples' = Append(samples, ToI16(sample_format, s))
    /\ UNCHANGED <<varsMain, sample_format, sample_rate, stream, remaining,
                   command, errors, varsUtils, varsProc>>

\* for i in (1..=duration_sec as u32).rev() { sleep(1 s) }; drop(stream)
AudioRecord ==
    /\ command = "audio"
    /\ pc = "record"
    /\ IF remaining > 0
       THEN remaining' = remaining - 1 /\ UNCHANGED <<pc, stream>>
       ELSE stream' = "dropped" /\ pc' = "extract" /\ UNCHANGED remaining
    /\ UNCHANGED <<num_bits, random_bits, exit, sample_format, sample_rate,
                   samples, command, errors, varsUtils, varsProc>>

\* slip: returns what was extracted without the length check
AudioExtract_NoCheck ==
    /\ command = "audio"
    /\ pc = "extract"
    /\ LET extracted == PushLsbs(<<>>, samples, 0, num_bits)
       IN  /\ random_bits' = extracted
           /\ exit' = "ok"
           /\ pc' = "done"
    /\ UNCHANGED <<num_bits, varsUtils, varsProc, varsColl>>

\* extract the bits; if bits.len() < num_bits { return Err(..) }
\* Ok(bits[..num_bits].to_vec())
AudioExtract ==
    /\ command = "audio"
    /\ pc = "extract"
    /\ LET extracted == PushLsbs(<<>>, samples, 0, num_bits)
       IN  IF Len(extracted) < num_bits
           THEN Fail("Insufficient audio data") /\ random_bits' = extracted
           ELSE ReturnBits(extracted)
    /\ UNCHANGED <<num_bits, varsUtils, varsProc, varsColl>>

(************************** serial_qrng ************************************)
\* lines read_line can deliver
Lines == {"0\n", "1\n", " 1 \r\n", "2\n", "bad\n", ""}

\* line.trim().parse::<u8>(): the number, or -1 for a parse error
TrimParse(line) ==
    CASE line = "0\n" -> 0
      [] line \in {"1\n", " 1 \r\n"} -> 1
      [] line = "2\n" -> 2
      [] OTHER -> -1

\* serialport::new(port_name, 9600).timeout(..).open()?
SerialOpen ==
    /\ command = "serial"
    /\ pc = "open"
    /\ \/ Fail("serialport error")
       \/ pc' = "loop" /\ UNCHANGED exit
    /\ UNCHANGED <<num_bits, random_bits, varsUtils, varsProc, varsColl>>

\* while bits.len() < num_bits { match reader.read_line(&mut line) { .. } }
\* Ok(bits[..num_bits].to_vec())
SerialLoop ==
    /\ command = "serial"
    /\ pc = "loop"
    /\ IF Len(random_bits) < num_bits
       THEN \/ \E line \in Lines :
                  LET b == TrimParse(line)
                  IN  IF b = 0 \/ b = 1
                      THEN /\ random_bits' = Append(random_bits, b)
                           /\ UNCHANGED <<pc, exit, errors>>
                      ELSE /\ errors < MaxErrors
                           /\ errors' = errors + 1
                           /\ UNCHANGED <<pc, exit, random_bits>>
            \/ pc' = "sleep" /\ UNCHANGED <<exit, random_bits, errors>>
       ELSE ReturnBits(random_bits) /\ UNCHANGED errors
    /\ UNCHANGED <<num_bits, command, sample_format, sample_rate, stream,
                   remaining, samples, varsUtils, varsProc>>

\* Err(e) => { eprintln!(..); sleep(100 ms); }
SerialSleep ==
    /\ command = "serial"
    /\ pc = "sleep"
    /\ pc' = "loop"
    /\ UNCHANGED <<num_bits, random_bits, exit, varsUtils, varsProc, varsColl>>

\* the steps of the thread that runs the collector
CollectorStep ==
    \/ WebcamOpen \/ WebcamLoop \/ WebcamSleep \/ WebcamRelease
    \/ AudioOpen \/ AudioPlay \/ AudioRecord \/ AudioExtract
    \/ SerialOpen \/ SerialLoop \/ SerialSleep

NextCollect ==
    \/ WebcamOpen \/ WebcamLoop \/ WebcamSleep \/ WebcamRelease
    \/ AudioOpen \/ AudioPlay \/ AudioRecord \/ AudioExtract \/ AudioCallback
    \/ SerialOpen \/ SerialLoop \/ SerialSleep

\* the collector's thread keeps running; the audio callback is the device's
SpecCollect == InitCollect /\ [][NextCollect]_vars /\ WF_vars(CollectorStep)

(***************************************************************************)
(* f64 arithmetic of the quality assessment.  A value in [0, 2) is held as *)
(* FxLen bits, most significant first: element 1 is the units bit and      *)
(* element 1 + j is worth 2^-j.  An f64 has MantissaBits significant bits; *)
(* division and subtraction round to nearest, ties to even, as the         *)
(* hardware does, so a comparison with a literal such as 0.05 (the f64     *)
(* nearest to 1/20) comes out as in the program.                           *)
(***************************************************************************)
FxLen == 65
MantissaBits == 53

\* the least element of a set of positions, 0 when it is empty
First(S) == IF S = {} THEN 0 ELSE CHOOSE i \in S : \A j \in S : i <= j

RECURSIVE PowMod2(_, _)
\* 2^e mod b
PowMod2(e, b) ==
    IF e = 0 THEN 1 % b
    ELSE LET h == PowMod2(e \div 2, b)
         IN  (((h * h) % b) * (IF e % 2 = 1 THEN 2 ELSE 1)) % b

\* the first K bits of a / b (a <= b) by long division, and whether
\* anything is left over: bit i + 1 is the i-th binary digit of (a % b) / b
QuotBits(a, b, K) ==
    LET r == a % b
    IN  [bits |-> [i \in 1..K |-> IF i = 1 THEN a \div b
                                  ELSE (2 * ((r * PowMod2(i - 2, b)) % b)) \div b],
         inexact |-> (r * PowMod2(K - 1, b)) % b # 0]

\* position of the leading 1 bit, 0 when there is none
Lead(x) == First({i \in 1..Len(x) : x[i] = 1})

\* x plus one unit in position pos
AddUlp(x, pos) ==
    LET z == CHOOSE i \in 1..pos : x[i] = 0 /\ \A j \in (i + 1)..pos : x[j] = 1
    IN  [j \in 1..Len(x) |-> IF j = z THEN 1 ELSE IF j > z /\ j <= pos THEN 0 ELSE x[j]]

\* round to MantissaBits significant bits, to nearest, ties to even
RoundF64(x, sticky) ==
    LET lead == Lead(x)
        last == lead + MantissaBits - 1
    IN  IF lead = 0 \/ last >= Len(x) THEN x
        ELSE LET guard == x[last + 1]
                 rest == sticky \/ \E j \in (last + 2)..Len(x) : x[j] = 1
                 trunc == [i \in 1..Len(x) |-> IF i <= last THEN x[i] ELSE 0]
             IN  IF guard = 1 /\ (rest \/ x[last] = 1) THEN AddUlp(trunc, last)
                 ELSE trunc

\* a as f64 / b as f64, for 0 <= a <= b, b > 0
F64Div(a, b) ==
    LET q == QuotBits(a, b, FxLen)
    IN  RoundF64(q.bits, q.inexact)

\* x < y: at the first position where they differ, x has the 0
F64Lt(x, y) ==
    LET d == First({i \in 1..Len(x) : x[i] # y[i]})
    IN  d # 0 /\ x[d] < y[d]

\* x - y for x >= y: bit i borrows when the bits below it are less in x
FxSub(x, y) ==
    LET borrow(i) ==
            LET d == First({j \in (i + 1)..Len(x) : x[j] # y[j]})
            IN  IF d # 0 /\ x[d] < y[d] THEN 1 ELSE 0
    IN  [i \in 1..Len(x) |-> (2 + x[i] - y[i] - borrow(i)) % 2]

\* (x - y).abs()
F64AbsDiff(x, y) == RoundF64(IF F64Lt(x, y) THEN FxSub(y, x) ELSE FxSub(x, y), FALSE)

\* the literal 0.5
F64Half == [i \in 1..FxLen |-> IF i = 2 THEN 1 ELSE 0]

(***************************************************************************)
(* estimate_entropy.  -log2(k / n) is computed to Log2Bits fraction bits   *)
(* by repeated squaring, in limbs of LimbBits bits; the entropy is held as *)
(* [I, Sh, Sl, n], standing for                                            *)
(*     (I * 2^28 - Sh * 2^14 - Sl) / (n * 2^28),                            *)
(* which is within 1e-8 of the f64 the program computes.                   *)
(***************************************************************************)
LimbBits == 14
Log2Bits == 28
Limb == 2^LimbBits

Ones(bits) == Cardinality({i \in 1..Len(bits) : bits[i] = 1})

\* Y * Y / 2^28 for Y below 2^30
Sq28(Y) ==
    LET h == Y \div Limb
        l == Y % Limb
    IN  (h * h) + (((2 * h * l) + ((l * l) \div Limb)) \div Limb)

RECURSIVE Exponent(_, _, _)
\* the least e with k * 2^e >= n
Exponent(k, n, e) == IF k * (2^e) >= n THEN e ELSE Exponent(k, n, e + 1)

RECURSIVE Log2Limb(_, _, _)
\* the next LimbBits - j + 1 fraction bits of log2(Y / 2^28): square, and
\* the bit is 1 when the square reaches 2
Log2Limb(Y, j, limb) ==
    IF j > LimbBits THEN [Y |-> Y, limb |-> limb]
    ELSE LET Y2 == Sq28(Y)
         IN  IF Y2 < 2^(Log2Bits + 1) THEN Log2Limb(Y2, j + 1, limb)
             ELSE Log2Limb(Y2 \div 2, j + 1, limb + 2^(LimbBits - j))

\* p.log2() for p = k / n in (0, 1]: log2(p) = -e + (hi * 2^14 + lo) / 2^28
Log2(k, n) ==
    LET e == Exponent(k, n, 0)
        A == k * (2^e)
        Y == (((A * Limb) \div n) * Limb) + ((((A * Limb) % n) * Limb) \div n)
        hi == Log2Limb(Y, 1, 0)
        lo == Log2Limb(hi.Y, 1, 0)
    IN  [e |-> e, hi |-> hi.limb, lo |-> lo.limb]

\* entropy -= p * p.log2(), for p = k / n, when p > 0.0
EntropyTerm(E, k, n) ==
    IF k > 0
    THEN LET lg == Log2(k, n)
         IN  [E EXCEPT !.I = @ + k * lg.e, !.Sh = @ + k * lg.hi, !.Sl = @ + k * lg.lo]
    ELSE E

estimate_entropy(bits) ==
    IF bits = <<>> THEN [I |-> 0, Sh |-> 0, Sl |-> 0, n |-> 1]
    ELSE LET ones == Ones(bits)
             zeros == Len(bits) - ones
             zero == [I |-> 0, Sh |-> 0, Sl |-> 0, n |-> Len(bits)]
         IN  EntropyTerm(EntropyTerm(zero, zeros, Len(bits)), ones, Len(bits))

\* entropy > a / b, for the thresholds 0.95 = 19/20 and 0.9 = 9/10
EntropyGt(E, a, b) ==
    LET T == (b * E.I) - (a * E.n)
        U == (T * Limb) - (b * E.Sh)
    IN  U > ((b * E.Sl) \div Limb)

(***************************************************************************)
(* quick_randomness_test                                                   *)
(***************************************************************************)
MinTestBits == 100

Insufficient == [kind |-> "insufficient"]

\* slip: bias and entropy thresholds of Good and Fair exchanged
Quality_Exchanged(bias, entropy) ==
    IF F64Lt(bias, F64Div(1, 10)) /\ EntropyGt(entropy, 9, 10) THEN "Good"
    ELSE IF F64Lt(bias, F64Div(1, 20)) /\ EntropyGt(entropy, 19, 20) THEN "Fair"
    ELSE "Poor - Consider debiasing"

\* if bias < 0.05 && entropy > 0.95 { "Good" }
\* else if bias < 0.1 && entropy > 0.9 { "Fair" } else { "Poor - Consider debiasing" }
Quality(bias, entropy) ==
    IF F64Lt(bias, F64Div(1, 20)) /\ EntropyGt(entropy, 19, 20) THEN "Good"
    ELSE IF F64Lt(bias, F64Div(1, 10)) /\ EntropyGt(entropy, 9, 10) THEN "Fair"
    ELSE "Poor - Consider debiasing"

\* for i in 1..bits.len() { if bits[i] != bits[i-1] { transitions += 1 } }
Transitions(bits) == Cardinality({i \in 2..Len(bits) : bits[i] # bits[i - 1]})

\* if bits.len() < 100
TooShort(bits) == Len(bits) < MinTestBits

quick_randomness_test(bits) ==
    IF TooShort(bits) THEN Insufficient
    ELSE LET ones == Ones(bits)
             zeros == Len(bits) - ones
             mean == F64Div(ones, Len(bits))
             bias == F64AbsDiff(mean, F64Half)
             entropy == estimate_entropy(bits)
         IN  [kind |-> "report",
              bit_count |-> Len(bits),
              ones_percent |-> (ones * 100) \div Len(bits),
              zeros_percent |-> (zeros * 100) \div Len(bits),
              bias |-> bias,
              transitions |-> Transitions(bits),
              transition_denominator |-> Len(bits) - 1,
              entropy |-> entropy,
              quality |-> Quality(bias, entropy)]

\* the inputs of the assessment: n bits with k ones, the ones first or spread
Block(n, k) == [i \in 1..n |-> IF i <= k THEN 1 ELSE 0]
Spread(n, k) == [i \in 1..n |-> IF (i * k) \div n > ((i - 1) * k) \div n THEN 1 ELSE 0]

QuickLens == {0, 1, 50} \cup ((MinTestBits - 1)..MaxQuickLen)

QuickInputs ==
    UNION {{Block(n, k), Spread(n, k)} : <<n, k>> \in {x \in QuickLens \X (0..MaxQuickLen) : x[2] <= x[1]}}

InitQuick ==
    /\ IdleMain /\ IdleProc /\ IdleColl
    /\ arg \in QuickInputs
    /\ kind = "bits"
    /\ calls = <<>>
    /\ ret = arg
    /\ hashed = <<>>

CallQuickTest ==
    /\ calls = <<>>
    /\ ret' = quick_randomness_test(arg)
    /\ kind' = "report"
    /\ calls' = <<"quick_randomness_test">>
    /\ UNCHANGED <<arg, hashed, varsMain, varsProc, varsColl>>

NextQuick == CallQuickTest

SpecQuick == InitQuick /\ [][NextQuick]_vars

(***************************************************************************)
(* hash_randomness called on two inputs, one after the other: arg holds    *)
(* the two inputs, ret the two results in call order, hashed every buffer  *)
(* handed to hasher.update.                                                *)
(***************************************************************************)
\* a two-byte input: one full byte followed by up to two more bits
LongInputs == {<<1, 0, 1, 1, 0, 0, 1, 0>> \o t : t \in BitSeqs(2)}

FirstInputs == BitSeqs(MaxPairLen) \cup LongInputs

\* bits followed by 0 to 8 zeros
Extensions(bits) == {Resize(bits, n) : n \in Len(bits)..(Len(bits) + 8)}

HashPairs ==
    UNION {{<<S, T>> : T \in BitSeqs(MaxPairLen) \cup Extensions(S)} : S \in FirstInputs}

InitHashPair ==
    /\ IdleMain /\ IdleProc /\ IdleColl
    /\ arg \in HashPairs
    /\ kind = "pair"
    /\ calls = <<>>
    /\ ret = <<>>
    /\ hashed = <<>>

\* the next call: hash_randomness(&arg[i])
CallHashNext ==
    /\ kind = "pair"
    /\ Len(calls) < Len(arg)
    /\ LET bits == arg[Len(calls) + 1]
       IN  /\ ret' = Append(ret, hash_randomness(bits))
           /\ hashed' = hashed \o HasherUpdates(bits)
    /\ calls' = Append(calls, "hash_randomness")
    /\ UNCHANGED <<arg, kind, varsMain, varsProc, varsColl>>

NextHashPair == CallHashNext

SpecHashPair == InitHashPair /\ [][NextHashPair]_vars

(***************************************************************************)
(* Codec claims                                                            *)
(***************************************************************************)
\* element i (0-based) of a bit sequence, 0 beyond its end
BitAt(S, i) == IF i < Len(S) THEN S[i + 1] ELSE 0

\* the byte whose bit i is S[8k + i]
PackedByte(S, k) ==
    BitAt(S, 8 * k) + 2 * BitAt(S, 8 * k + 1) + 4 * BitAt(S, 8 * k + 2)
    + 8 * BitAt(S, 8 * k + 3) + 16 * BitAt(S, 8 * k + 4) + 32 * BitAt(S, 8 * k + 5)
    + 64 * BitAt(S, 8 * k + 6) + 128 * BitAt(S, 8 * k + 7)

Zeros(n) == [k \in 1..n |-> 0]

\* C1: packing the unpacked bits of a byte buffer gives the buffer back:
\* bits_to_bytes(bytes_to_bits(B)) = B, for every buffer B.
C1_PackUnpackIdentity ==
    calls = <<"bytes_to_bits", "bits_to_bytes">> => ret = arg

C1_Witness ==
    /\ calls = <<"bytes_to_bits", "bits_to_bytes">>
    /\ arg = <<170, 85>>
    /\ ret = <<170, 85>>

\* C2: unpacking the packed bytes of a bit sequence S gives S back when
\* Len(S) is a multiple of 8, and otherwise S followed by 8 - Len(S) % 8
\* zero bits: S is a prefix, the result is strictly longer, and its length is
\* the next multiple of 8.
C2_UnpackPackPadding ==
    calls = <<"bits_to_bytes", "bytes_to_bits">> =>
        IF Len(arg) % 8 = 0
        THEN ret = arg
        ELSE /\ ret = arg \o Zeros(8 - (Len(arg) % 8))
             /\ SubSeq(ret, 1, Len(arg)) = arg
             /\ Len(ret) > Len(arg)
             /\ Len(ret) % 8 = 0
             /\ Len(ret) - Len(arg) < 8

C2_Witness ==
    /\ calls = <<"bits_to_bytes", "bytes_to_bits">>
    /\ Len(arg) = 9
    /\ arg[9] = 1
    /\ Len(ret) = 16

\* C3: bits_to_bytes packs least-significant-bit first with zero padding: the
\* output has ceil(Len(S) / 8) bytes, byte k is the sum of S[8k + i] * 2^i
\* over i in 0..7 with positions beyond the end counting as 0, and
\* [1,0,1,0,1,0,1,0] packs to the single byte 0x55.
C3_LsbFirstPacking ==
    calls = <<"bits_to_bytes">> =>
        /\ Len(ret) = (Len(arg) + 7) \div 8
        /\ \A k \in 0..(Len(ret) - 1) : ret[k + 1] = PackedByte(arg, k)
        /\ (arg = <<1, 0, 1, 0, 1, 0, 1, 0>> => ret = <<85>>)

C3_Witness ==
    /\ calls = <<"bits_to_bytes">>
    /\ arg = <<1, 0, 1, 0, 1, 0, 1, 0, 1>>
    /\ ret = <<85, 1>>

(***************************************************************************)
(* Debiaser claims                                                         *)
(***************************************************************************)
\* the 0-based numbers j of the non-overlapping pairs (S[2j], S[2j+1])
Pairs(S) == 0..((Len(S) \div 2) - 1)

UnequalPairs(S) == {j \in Pairs(S) : S[2 * j + 1] # S[2 * j + 2]}

\* the first elements of the unequal pairs, in increasing pair number
FirstsOfUnequalPairs(S) ==
    LET U == UnequalPairs(S)
        nth(k) == CHOOSE j \in U : Cardinality({x \in U : x < j}) = k - 1
    IN  [k \in 1..Cardinality(U) |-> S[2 * nth(k) + 1]]

FlipLast(S) == [S EXCEPT ![Len(S)] = 1 - S[Len(S)]]

\* C4: on an input of length >= 2 with at least one unequal pair, the output
\* is exactly the first elements of the unequal pairs in order; equal pairs
\* contribute nothing, and the last bit of an odd-length input has no
\* influence on the output.
C4_DebiasUnequalPairs ==
    (calls = <<"von_neumann_debias">> /\ Len(arg) >= 2 /\ UnequalPairs(arg) # {}) =>
        /\ ret = FirstsOfUnequalPairs(arg)
        /\ (Len(arg) % 2 = 1 => von_neumann_debias(FlipLast(arg)) = ret)

C4_Witness ==
    /\ calls = <<"von_neumann_debias">>
    /\ arg = <<0, 1, 1, 0, 1, 1, 0, 0, 1>>
    /\ ret = <<0, 1>>

\* C5: an input of length 0 or 1 is returned unchanged; an input of length
\* >= 2 whose pairs are all equal gives the one-element sequence of its first
\* bit; so the output is empty only when the input is empty.
C5_DebiasEdgeCases ==
    calls = <<"von_neumann_debias">> =>
        /\ (Len(arg) < 2 => ret = arg)
        /\ (Len(arg) >= 2 /\ UnequalPairs(arg) = {} => ret = <<arg[1]>>)
        /\ (ret = <<>> => arg = <<>>)

C5_Witness ==
    /\ calls = <<"von_neumann_debias">>
    /\ arg = <<1, 1, 0, 0, 0>>
    /\ ret = <<1>>

(***************************************************************************)
(* Whitener claims                                                         *)
(***************************************************************************)
\* C6: hash_randomness returns exactly 256 bits, each 0 or 1, for every
\* non-empty input, and the empty sequence for the empty input, for which
\* nothing is handed to the hasher.
C6_HashLength ==
    calls = <<"hash_randomness">> =>
        IF arg = <<>>
        THEN ret = <<>> /\ hashed = <<>>
        ELSE /\ Len(ret) = 256
             /\ \A k \in 1..Len(ret) : ret[k] \in Bit
             /\ Len(hashed) = 1

C6_Witness ==
    /\ calls = <<"hash_randomness">>
    /\ Len(arg) = 9
    /\ Len(ret) = 256
    /\ hashed = <<bits_to_bytes(arg)>>

(***************************************************************************)
(* Orchestrator claims                                                     *)
(***************************************************************************)
\* the final sequence the four flag settings ask for
FinalOf(raw, debiasing, hashing) ==
    CASE ~debiasing /\ ~hashing -> raw
      [] debiasing /\ ~hashing -> von_neumann_debias(raw)
      [] ~debiasing /\ hashing -> hash_randomness(raw)
      [] debiasing /\ hashing -> hash_randomness(von_neumann_debias(raw))

\* the output file for a final sequence: packed bytes when its length is a
\* multiple of 8, else one ASCII '0' or '1' per bit
EncodedLen(final) == IF Len(final) % 8 = 0 THEN Len(final) \div 8 ELSE Len(final)

EncodedByte(final, k) ==
    IF Len(final) % 8 = 0 THEN PackedByte(final, k - 1)
    ELSE IF final[k] = 1 THEN 49 ELSE 48

\* data is the first Len(data) bytes of the encoding of final
IsEncodedPrefix(data, final) ==
    /\ Len(data) <= EncodedLen(final)
    /\ \A k \in 1..Len(data) : data[k] = EncodedByte(final, k)

IsEncoded(data, final) == Len(data) = EncodedLen(final) /\ IsEncodedPrefix(data, final)

\* C7: the stages run in the order raw -> debias -> hash -> persistence, each
\* conditioning stage only when its flag is set: once the stages are done
\* the final sequence is raw, debias(raw), hash(raw) or hash(debias(raw)) as
\* the flags say; the file is created only after the enabled stages are
\* done and receives that final sequence.
C7_StageOrder ==
    LET final == FinalOf(collected, apply_debiasing, apply_hashing)
    IN  /\ (pc \in {"persist", "write"} \/ exit = "ok" \/ file.created) =>
               result_bits = final
        /\ file.created =>
               /\ pc \in {"write", "done"}
               /\ output_file # <<>>
               /\ IsEncodedPrefix(file.data, result_bits)
        /\ exit = "ok" =>
               /\ random_bits = final
               /\ file.created = (output_file # <<>>)
               /\ file.created => IsEncoded(file.data, result_bits)

C7_Witness ==
    /\ exit = "ok"
    /\ apply_debiasing /\ apply_hashing
    /\ file.created
    /\ Len(collected) = 8
    /\ result_bits = hash_randomness(von_neumann_debias(collected))
    /\ result_bits # von_neumann_debias(hash_randomness(collected))
    /\ Len(file.data) = 32

\* C8: in every run that ends in an error the output file either was never
\* created or holds the complete final sequence.
C8_NoPartialFile ==
    exit = "err" => (~file.created \/ IsEncoded(file.data, result_bits))

(***************************************************************************)
(* Collector claims                                                        *)
(***************************************************************************)
\* a successful call returned exactly num_bits bits, each 0 or 1
ReturnsExactly ==
    exit = "ok" =>
        /\ Len(random_bits) = num_bits
        /\ \A k \in 1..Len(random_bits) : random_bits[k] \in Bit

\* audio_qrng that recorded fewer samples than asked for ends with the
\* insufficient-data error, and no other call ends with it
InsufficientIsAudio ==
    /\ (command = "audio" /\ pc = "done" /\ stream = "dropped" /\ Len(samples) < num_bits)
           => exit = "Insufficient audio data"
    /\ exit = "Insufficient audio data"
           => (command = "audio" /\ Len(samples) < num_bits)

\* C9 as stated: a collector never returns successfully with other than
\* num_bits bits, and a call of audio_qrng or serial_qrng whose source
\* delivers too little ends (with an error) rather than blocking forever.
C9_CollectorsEnd ==
    /\ []ReturnsExactly
    /\ (command \in {"audio", "serial"}) ~> (exit # "running")

\* C9 amended: a collector never returns successfully with other than
\* num_bits bits of 0 and 1; audio_qrng always ends, with the
\* insufficient-data error when it recorded fewer than num_bits samples;
\* serial_qrng and webcam_qrng never report insufficient data (they retry
\* until num_bits bits are collected, which may be forever).
C9_AudioEndsOthersRetry ==
    /\ []ReturnsExactly
    /\ []InsufficientIsAudio
    /\ (command = "audio") ~> (exit # "running")

C9_Witness ==
    /\ command = "audio"
    /\ num_bits = 3
    /\ Len(samples) = 2
    /\ exit = "Insufficient audio data"

(***************************************************************************)
(* Assessor claims                                                         *)
(***************************************************************************)
\* C10: on fewer than 100 bits quick_randomness_test returns the fixed
\* insufficient-data result, with no statistics in it; on 100 bits or more
\* it returns a report of the input's statistics whose verdict is Good when
\* bias < 0.05 and entropy > 0.95, else Fair when bias < 0.10 and
\* entropy > 0.90, else Poor.
C10_QuickTestVerdict ==
    calls = <<"quick_randomness_test">> =>
        IF Len(arg) < 100
        THEN ret = [kind |-> "insufficient"]
        ELSE /\ ret.kind = "report"
             /\ ret.bit_count = Len(arg)
             /\ ret.bias = F64AbsDiff(F64Div(Ones(arg), Len(arg)), F64Half)
             /\ ret.entropy = estimate_entropy(arg)
             /\ LET good == F64Lt(ret.bias, F64Div(5, 100)) /\ EntropyGt(ret.entropy, 95, 100)
                    fair == F64Lt(ret.bias, F64Div(10, 100)) /\ EntropyGt(ret.entropy, 90, 100)
                IN  ret.quality = IF good THEN "Good"
                                  ELSE IF fair THEN "Fair"
                                  ELSE "Poor - Consider debiasing"

C10_Witness ==
    /\ calls = <<"quick_randomness_test">>
    /\ Len(arg) = 100
    /\ Ones(arg) = 56
    /\ ret.kind = "report"
    /\ ret.quality = "Fair"

\* C11: the result of hash_randomness depends on its input only through the
\* zero-padded packed bytes: two calls on non-empty inputs with the same
\* bits_to_bytes return the same bits; in particular the same input twice
\* returns the same bits, and an input whose length is not a multiple of 8
\* returns the same 256 bits as that input followed by zeros up to the next
\* multiple of 8.
C11_HashOfPackedBytes ==
    (kind = "pair" /\ Len(calls) = 2) =>
        LET S == arg[1]
            T == arg[2]
        IN  /\ (S # <<>> /\ T # <<>> /\ bits_to_bytes(S) = bits_to_bytes(T)) => ret[1] = ret[2]
            /\ S = T => ret[1] = ret[2]
            /\ (Len(S) % 8 # 0 /\ T = S \o Zeros(8 - (Len(S) % 8))) =>
                   (ret[1] = ret[2] /\ Len(ret[1]) = 256)

C11_Witness ==
    /\ kind = "pair"
    /\ Len(calls) = 2
    /\ arg = << <<1, 0, 1>>, <<1, 0, 1, 0, 0, 0, 0, 0>> >>
    /\ Len(hashed) = 2
    /\ ret[1] = ret[2]
    /\ Len(ret[1]) = 256

====
